---- MODULE Spec2Model ----
(***************************************************************************)
(* DogBot output controller: pin claims (utility.py), DMA channel          *)
(* bookkeeping and actuators (io_controller.py), configuration values      *)
(* (config.py).                                                            *)
(*                                                                         *)
(* Python values are represented as follows.                               *)
(*   None (as update-cycle key, channel argument or return) : NoneVal      *)
(*   dict update_channels (insertion ordered)  : sequence of [key, ch]     *)
(*   dict channel_servos / used_pins / servos / leds : TLA+ functions      *)
(*   RPIO.PWM.Servo(channel, cycle) object     : [dma], its channel; the    *)
(*       subcycle time it stores is read nowhere in the program            *)
(*   the Config object / the constant RPIO.OUT : the strings CONFIG and    *)
(*                                               RPIO_OUT                   *)
(***************************************************************************)
EXTENDS Integers, Sequences, FiniteSets, TLC

(* ---------------- bounds of the model ---------------- *)
MaxPin == 2
MaxFree == 2
\* depth at which the interpreter gives up a recursion (RecursionError)
MaxDepth == 3
\* speeds are counted in 1/SpeedUnit: the value v stands for v / SpeedUnit
SpeedUnit == 10

(* ---------------- program constants ---------------- *)
NumChannels == 15
DefaultUpdate == 20000
MaxBrightness == 100
\* range_of_motion=90, in degrees
DefaultRange == 90
\* pulse=(1.0, 2.0), counted in thousandths
DefaultPulseMin == 1000
DefaultPulseMax == 2000

NoneVal == 0 - 1
CONFIG == "config"
RPIO_OUT == "RPIO.OUT"
RPIO_IN == "RPIO.IN"

Pins == 1..MaxPin
\* pin arguments of the controller's new_* calls: pin 1 (claimed in one of
\* the starting configurations) and pin 2
CtlPins == {1, 2}
Names == {"a", "b"}
Comments == {"", "x"}
IoTypes == {"in", "IN", RPIO_IN, "out", RPIO_OUT}
\* update-cycle arguments: a period numerically equal to a channel id, the
\* default period of new_servo, and None
Cycles == {0, DefaultUpdate}
CycleArgs == Cycles \cup {NoneVal}
\* explicit channel arguments of new_servo_channel / new_dma_channel
ExplicitChannels == {0, MaxFree}
ChannelArgs == ExplicitChannels \cup {NoneVal}

\* arguments of set and increment: the ends of the interval, values next to
\* them and outside, a value in the middle
Brightnesses == {0 - 1, 0, 1, 50, MaxBrightness - 1, MaxBrightness, MaxBrightness + 1}
Changes == {0 - 50, 0 - 1, 0, 1, 49, 50}
Angles == {0 - 1, 0, 1, 45, DefaultRange - 1, DefaultRange, DefaultRange + 1}
AngleChanges == {0 - 45, 0, 1, 45}
Speeds == {0 - SpeedUnit - 1, 0 - SpeedUnit, 1 - SpeedUnit, 0, 5, SpeedUnit - 1,
           SpeedUnit, SpeedUnit + 1}
SpeedChanges == {0 - 5, 0, 5}

Range(s) == {s[i] : i \in DOMAIN s}
\* [k, k+1, ..., NumChannels-1] as a Python list
ListFrom(k) == [i \in 1..(NumChannels - k) |-> k + i - 1]
\* contents of config['RPIO']['reserved_channels'] the model starts from: the
\* ids MaxFree.. are reserved, or all ids but 2 are
ReservedOptions == {ListFrom(MaxFree), <<0, 1>> \o ListFrom(3)}
\* the [temp_init] used_pins and [py_behavior] echo entries the model starts
\* from; echo is kept as the string configparser returns
BehaviorOptions == {[used_pins |-> << >>, echo |-> ""],
                    [used_pins |-> [p \in {1} |-> "init"], echo |-> "False"]}

VARIABLES
    used_pins,          \* Config.used_pins : pin -> comment
    reserved_channels,  \* Config.reserved_channels : list of int
    echo,               \* Config.echo : str
    update_channels,    \* OutputController.update_channels
    channel_servos,     \* OutputController.channel_servos
    servos,             \* OutputController.servos
    leds,               \* OutputController.leds
    led,                \* the actuator object a client constructed, or NoActuator
    last                \* the last call: arguments, outcome (err, ret), driver calls
                        \* (drv), warning (warned), id bound by get_dma_channel (alloc)

vars == <<used_pins, reserved_channels, echo, update_channels, channel_servos,
          servos, leds, led, last>>

ctl == <<update_channels, channel_servos, servos, leds>>
cfg == <<reserved_channels, echo>>

EmptyMap == << >>

Call(op, name, pin, cycle, ch, val) ==
    [op |-> op, pin |-> pin, cycle |-> cycle, ch |-> ch,
     val |-> val, err |-> "ok", ret |-> NoneVal, drv |-> << >>,
     warned |-> FALSE, alloc |-> NoneVal]

NoCall == Call("init", "", 0, NoneVal, NoneVal, 0)

\* Python truthiness of a str
Truthy(s) == s # ""

\* Record constructors list their fields in the order in which the names
\* first occur in this module.

(* ---------------- utility.py ---------------- *)

\* getattr(config, 'used_pins') succeeds only on the Config object
HasUsedPins(config) == config = CONFIG

PinMode(io_type) == IF io_type \in {"in", "IN", RPIO_IN} THEN RPIO_IN ELSE RPIO_OUT

\* claim_pin without the membership test: the claim is overwritten
claim_pin_overwrite(pin, config, io_type, comment, pins) ==
    IF ~HasUsedPins(config)
    THEN [err |-> "AttributeError", drv |-> << >>, pins |-> pins]
    ELSE [err |-> "ok",
          drv |-> << [pin |-> pin, call |-> "setup", mode |-> PinMode(io_type)] >>,
          pins |-> [q \in DOMAIN pins \cup {pin} |->
                      IF q = pin THEN comment ELSE pins[q]]]

\* claim_pin(pin, config, io_type, comment): outcome, new claim set and the
\* driver calls issued
claim_pin(pin, config, io_type, comment, pins) ==
    IF ~HasUsedPins(config)
    THEN [err |-> "AttributeError", drv |-> << >>, pins |-> pins]
    ELSE IF pin \in DOMAIN pins
    THEN [err |-> "PinAlreadyClaimed", drv |-> << >>, pins |-> pins]
    ELSE [err |-> "ok",
          drv |-> << [pin |-> pin, call |-> "setup", mode |-> PinMode(io_type)] >>,
          pins |-> [q \in DOMAIN pins \cup {pin} |->
                      IF q = pin THEN comment ELSE pins[q]]]

\* release_pin dropping every claim instead of the one asked for
release_pin_clear(pin, pins, echoFlag) ==
    IF pin \in DOMAIN pins
    THEN [warned |-> FALSE, pins |-> << >>]
    ELSE [warned |-> Truthy(echoFlag), pins |-> pins]

\* release_pin(pin, config): new claim set and whether a warning is emitted
release_pin(pin, pins, echoFlag) ==
    IF pin \in DOMAIN pins
    THEN [warned |-> FALSE, pins |-> [q \in DOMAIN pins \ {pin} |-> pins[q]]]
    ELSE [warned |-> Truthy(echoFlag), pins |-> pins]

(* ---------------- io_controller.py : channel bookkeeping ---------------- *)

UCKeys(uc) == {uc[i].key : i \in DOMAIN uc}
UCChannels(uc) == {uc[i].ch : i \in DOMAIN uc}
\* update_channels[k]
UCGet(uc, k) == uc[CHOOSE i \in DOMAIN uc : uc[i].key = k].ch
\* update_channels[k] = v moving a replaced key to the end, as del followed
\* by insertion would
UCSet_reinsert(uc, k, v) ==
    Append(SelectSeq(uc, LAMBDA e : e.key # k), [ch |-> v, key |-> k])

\* update_channels[k] = v : an existing key keeps its place, a new key is appended
UCSet(uc, k, v) ==
    IF k \in UCKeys(uc)
    THEN [i \in DOMAIN uc |-> IF uc[i].key = k THEN [ch |-> v, key |-> k] ELSE uc[i]]
    ELSE Append(uc, [ch |-> v, key |-> k])
\* channel_servos[ch] = obj
CSSet(cs, ch, obj) == [x \in DOMAIN cs \cup {ch} |-> IF x = ch THEN obj ELSE cs[x]]

Lowest(S) == CHOOSE x \in S : \A y \in S : x <= y

\* get_dma_channel without the reserved_channels test
get_dma_channel_unreserved(cs) ==
    LET available == {x \in 0..(NumChannels - 1) : x \notin DOMAIN cs}
    IN IF available # {} THEN Lowest(available) ELSE NoneVal

\* OutputController.get_dma_channel: first id of range(15) that is neither
\* reserved nor a key of channel_servos; None when there is none
get_dma_channel(cs) ==
    LET available == {x \in 0..(NumChannels - 1) :
                        x \notin Range(reserved_channels) /\ x \notin DOMAIN cs}
    IN IF available # {} THEN Lowest(available) ELSE NoneVal

\* OutputController.new_dma_channel(update_cycle, channel)
new_dma_channel(update_cycle, channel, uc, cs) ==
    LET warned == update_cycle \in UCKeys(uc) /\ Truthy(echo)
        chosen == IF channel = NoneVal THEN get_dma_channel(cs) ELSE channel
    IN IF chosen = NoneVal
       THEN [err |-> "NoChannelAvailable", ret |-> NoneVal, warned |-> warned,
             alloc |-> NoneVal, uc |-> uc]
       ELSE [err |-> "ok", ret |-> chosen, warned |-> warned,
             alloc |-> IF channel = NoneVal THEN chosen ELSE NoneVal,
             uc |-> UCSet(uc, update_cycle, chosen)]

\* OutputController.new_servo_channel(update_cycle, channel): the returned
\* RPIO.PWM.Servo object is obj
new_servo_channel(update_cycle, channel, uc, cs) ==
    LET d == new_dma_channel(update_cycle, channel, uc, cs)
        obj == [dma |-> d.ret]
    IN IF d.err # "ok"
       THEN [err |-> d.err, warned |-> d.warned, alloc |-> NoneVal, uc |-> uc,
             cs |-> cs, obj |-> obj]
       ELSE [err |-> "ok", warned |-> d.warned, alloc |-> d.alloc, uc |-> d.uc,
             cs |-> CSSet(cs, d.ret, obj), obj |-> obj]

\* the try block of get_servo_channel raises KeyError or IndexError
LookupFails(update_cycle, uc, cs) ==
    IF update_cycle = NoneVal
    THEN uc = << >> \/ uc[1].ch \notin DOMAIN cs
    ELSE update_cycle \notin UCKeys(uc) \/ UCGet(uc, update_cycle) \notin DOMAIN cs

\* OutputController.get_servo_channel(update_cycle)
get_servo_channel(update_cycle, uc, cs) ==
    IF ~LookupFails(update_cycle, uc, cs)
    THEN [err |-> "ok", warned |-> FALSE, alloc |-> NoneVal, uc |-> uc, cs |-> cs,
          obj |-> IF update_cycle = NoneVal THEN cs[uc[1].ch]
                  ELSE cs[UCGet(uc, update_cycle)]]
    ELSE IF update_cycle \notin DOMAIN cs
    THEN new_servo_channel(update_cycle, NoneVal, uc, cs)
    ELSE [err |-> "ChannelBindingInconsistency", warned |-> FALSE,
          alloc |-> NoneVal, uc |-> uc, cs |-> cs, obj |-> [dma |-> NoneVal]]

(* ---------------- io_controller.py : actuator constructors ---------------- *)

\* class Servo defines `pulse` as a property (line 112) and gives it no setter
ServoPulseHasSetter == FALSE
\* ABCServo.__init__ takes (self, controller, name, pin, channel);
\* ContinousServo.__init__ calls it with (self, controller, name, pin, channel)
\* after the bound self
SuperInitAccepts(nargs) == nargs = 5

NoActuator == [name |-> "", pin |-> 0, channel |-> NoneVal, kind |-> "none",
               value |-> 0]

\* Servo.__init__: `self.pulse = sorted(pulse)` is an assignment to the
\* property, which raises before self.angle is set
ServoInit(name, pin, channel) ==
    IF ~ServoPulseHasSetter
    THEN [err |-> "AttributeError:pulse", obj |-> NoActuator]
    ELSE [err |-> "ok",
          obj |-> [name |-> name, pin |-> pin, channel |-> channel,
                   kind |-> "servo", value |-> 0]]

\* ContinousServo.__init__: super().__init__(self, controller, name, pin, channel)
\* passes six positional arguments
ContinousServoInit(name, pin, channel) ==
    IF ~SuperInitAccepts(6)
    THEN [err |-> "TypeError", obj |-> NoActuator]
    ELSE [err |-> "ok",
          obj |-> [name |-> name, pin |-> pin, channel |-> channel,
                   kind |-> "continuous", value |-> 0]]

\* LED.__init__
LEDInit(name, pin, channel) ==
    [err |-> "ok",
     obj |-> [name |-> name, pin |-> pin, channel |-> channel, kind |-> "led",
              value |-> 0]]

\* registry['name'] = obj : the key is the string literal
Register(registry, name, obj) ==
    [k \in DOMAIN registry \cup {"name"} |-> IF k = "name" THEN obj ELSE registry[k]]

\* the part of new_servo / new_continuous_servo / new_led after the channel is
\* known: utility.claim_pin(pin, RPIO.OUT, self.config, comment), the
\* constructor, the registration.  g is the outcome of the channel step.
Construct(g, channel, pin, comment, made, registry) ==
    LET c == claim_pin(pin, RPIO_OUT, CONFIG, comment, used_pins) IN
    IF g.err # "ok"
    THEN [err |-> g.err, ret |-> NoneVal, drv |-> << >>,
          warned |-> g.warned, alloc |-> NoneVal, pins |-> used_pins,
          uc |-> update_channels, cs |-> channel_servos, registry |-> registry]
    ELSE IF c.err # "ok"
    THEN [err |-> c.err, ret |-> NoneVal, drv |-> c.drv, warned |-> g.warned,
          alloc |-> g.alloc, pins |-> c.pins, uc |-> g.uc,
          cs |-> g.cs, registry |-> registry]
    ELSE IF made.err # "ok"
    THEN [err |-> made.err, ret |-> NoneVal, drv |-> c.drv, warned |-> g.warned,
          alloc |-> g.alloc, pins |-> c.pins, uc |-> g.uc,
          cs |-> g.cs, registry |-> registry]
    ELSE [err |-> "ok", ret |-> channel, drv |-> c.drv, warned |-> g.warned,
          alloc |-> g.alloc, pins |-> c.pins,
          uc |-> g.uc, cs |-> g.cs,
          registry |-> Register(registry, made.obj.name, made.obj)]

\* OutputController.new_servo(name, pin, update)
new_servo(name, pin, update) ==
    LET g == get_servo_channel(update, update_channels, channel_servos) IN
    Construct(g, g.obj.dma, pin, "servo " \o name,
              ServoInit(name, pin, g.obj.dma), servos)

\* OutputController.new_continuous_servo(name, pin, pulse)
new_continuous_servo(name, pin) ==
    LET g == get_servo_channel(NoneVal, update_channels, channel_servos) IN
    Construct(g, g.obj.dma, pin, "continuous servo " \o name,
              ContinousServoInit(name, pin, g.obj.dma), servos)

\* the channel step of new_led: the first binding's channel, else
\* new_dma_channel()
led_channel(uc, cs) ==
    IF uc # << >>
    THEN [err |-> "ok", ret |-> uc[1].ch, warned |-> FALSE, alloc |-> NoneVal,
          uc |-> uc, cs |-> cs]
    ELSE LET d == new_dma_channel(NoneVal, NoneVal, uc, cs) IN
         [err |-> d.err, ret |-> d.ret, warned |-> d.warned, alloc |-> d.alloc,
          uc |-> d.uc, cs |-> cs]

\* OutputController.new_led(name, pin)
new_led(name, pin) ==
    LET g == led_channel(update_channels, channel_servos) IN
    Construct(g, g.ret, pin, "led " \o name, LEDInit(name, pin, g.ret), leds)

(* ---------------- io_controller.py : LED object ---------------- *)

\* methods class LED defines
LEDMethods == {"set", "update"}

\* LED.set accepting the two ends of the interval
LED_set_closed(obj, brightness) ==
    IF ~(0 =< brightness /\ brightness =< MaxBrightness)
    THEN [err |-> "ValueError", obj |-> obj]
    ELSE [err |-> "ok", obj |-> [obj EXCEPT !.value = brightness]]

\* LED.set(brightness)
LED_set(obj, brightness) ==
    IF ~(0 < brightness /\ brightness < MaxBrightness)
    THEN [err |-> "ValueError", obj |-> obj]
    ELSE [err |-> "ok", obj |-> [obj EXCEPT !.value = brightness]]

\* led.increment(change): attribute lookup on the LED object
LED_increment(obj, change) ==
    IF "increment" \notin LEDMethods
    THEN [err |-> "AttributeError:increment", obj |-> obj]
    ELSE LED_set(obj, obj.value + change)

(* ---------------- io_controller.py : Servo and ContinousServo methods ------ *)

\* the attribute values of a Servo / ContinousServo instance: angle or speed
\* is `value`; the constructor's pulse argument is no attribute, the name
\* `pulse` being the class's property
ServoAttrs ==
    {[name |-> "a", pin |-> 1, channel |-> 0, kind |-> "servo", value |-> a,
      range |-> DefaultRange, reverse |-> r] : a \in {0, 45}, r \in BOOLEAN}
ContinousServoAttrs ==
    {[name |-> "a", pin |-> 1, channel |-> 0, kind |-> "continuous", value |-> 0,
      range |-> 0, reverse |-> r] : r \in BOOLEAN}

\* methods class OutputController defines that an actuator may call
ControllerMethods == {"new_servo", "new_continuous_servo", "new_led",
                      "get_servo_channel", "new_servo_channel",
                      "new_dma_channel", "get_dma_channel"}

\* Servo.pulse (the property getter): after the position ratio it evaluates
\* max(self.pulse), and self.pulse is this getter again; a number coming back
\* from the inner evaluation would not be iterable
RECURSIVE Servo_pulse(_, _)
Servo_pulse(obj, depth) ==
    IF depth > MaxDepth
    THEN [val |-> 0, err |-> "RecursionError"]
    ELSE LET inner == Servo_pulse(obj, depth + 1) IN
         IF inner.err # "ok" THEN inner
         ELSE [val |-> 0, err |-> "TypeError"]

\* ContinousServo.pulse (the property getter): min(self.pulse) is evaluated
\* first, and self.pulse is this getter again; self.reverse is not read
RECURSIVE ContinousServo_pulse(_, _)
ContinousServo_pulse(obj, depth) ==
    IF depth > MaxDepth
    THEN [val |-> 0, err |-> "RecursionError"]
    ELSE LET inner == ContinousServo_pulse(obj, depth + 1) IN
         IF inner.err # "ok" THEN inner
         ELSE [val |-> 0, err |-> "TypeError"]

\* ABCServo.update: reads self.pulse, then self.controller.set_servo(pin, pulse)
ABCServo_update(obj) ==
    LET p == Servo_pulse(obj, 1) IN
    IF p.err # "ok" THEN [err |-> p.err, drv |-> << >>]
    ELSE IF "set_servo" \notin ControllerMethods
    THEN [err |-> "AttributeError:set_servo", drv |-> << >>]
    ELSE [err |-> "ok",
          drv |-> << [pin |-> obj.pin, call |-> "set_servo", pulse |-> p.val] >>]

\* Servo.set(angle): the angle is stored before update() runs
Servo_set(obj, angle) ==
    IF ~(0 < angle /\ angle < obj.range)
    THEN [err |-> "ValueError", drv |-> << >>, obj |-> obj]
    ELSE LET stored == [obj EXCEPT !.value = angle]
             u == ABCServo_update(stored)
         IN [err |-> u.err, drv |-> u.drv, obj |-> stored]

\* Servo.increment(change)
Servo_increment(obj, change) == Servo_set(obj, obj.value + change)

\* ContinousServo.set(speed): no update() call
ContinousServo_set(obj, speed) ==
    IF ~(0 - SpeedUnit < speed /\ speed < SpeedUnit)
    THEN [err |-> "ValueError", drv |-> << >>, obj |-> obj]
    ELSE [err |-> "ok", drv |-> << >>, obj |-> [obj EXCEPT !.value = speed]]

\* ContinousServo.increment(change)
ContinousServo_increment(obj, change) == ContinousServo_set(obj, obj.value + change)

Init ==
    /\ \E b \in BehaviorOptions : used_pins = b.used_pins /\ echo = b.echo
    /\ reserved_channels \in ReservedOptions
    /\ update_channels = << >>
    /\ channel_servos = EmptyMap
    /\ servos = EmptyMap
    /\ leds = EmptyMap
    /\ led = NoActuator
    /\ last = NoCall

\* utility.claim_pin(pin, config, io_type, comment) called by a client
ClaimPin(p, io, c) ==
    \E r \in {claim_pin(p, CONFIG, io, c, used_pins)} :
    /\ used_pins' = r.pins
    /\ last' = [Call("claim_pin", c, p, NoneVal, NoneVal, 0) EXCEPT
                  !.err = r.err, !.drv = r.drv]
    /\ UNCHANGED <<cfg, ctl, led>>

\* utility.release_pin(pin, config) called by a client
ReleasePin(p) ==
    \E r \in {release_pin(p, used_pins, echo)} :
    /\ used_pins' = r.pins
    /\ last' = [Call("release_pin", "", p, NoneVal, NoneVal, 0) EXCEPT
                  !.warned = r.warned]
    /\ UNCHANGED <<cfg, ctl, led>>

\* controller.get_servo_channel(update_cycle) called by a client
GetServoChannel(c) ==
    \E r \in {get_servo_channel(c, update_channels, channel_servos)} :
    /\ update_channels' = r.uc
    /\ channel_servos' = r.cs
    /\ last' = [Call("get_servo_channel", "", 0, c, NoneVal, 0) EXCEPT
                  !.err = r.err, !.ret = r.obj.dma, !.warned = r.warned,
                  !.alloc = r.alloc]
    /\ UNCHANGED <<used_pins, cfg, servos, leds, led>>

\* controller.new_servo_channel(update_cycle, channel) called by a client
NewServoChannel(c, ch) ==
    \E r \in {new_servo_channel(c, ch, update_channels, channel_servos)} :
    /\ update_channels' = r.uc
    /\ channel_servos' = r.cs
    /\ last' = [Call("new_servo_channel", "", 0, c, ch, 0) EXCEPT
                  !.err = r.err, !.ret = r.obj.dma, !.warned = r.warned,
                  !.alloc = r.alloc]
    /\ UNCHANGED <<used_pins, cfg, servos, leds, led>>

\* controller.new_dma_channel(update_cycle, channel) called by a client
NewDmaChannel(c, ch) ==
    \E r \in {new_dma_channel(c, ch, update_channels, channel_servos)} :
    /\ update_channels' = r.uc
    /\ last' = [Call("new_dma_channel", "", 0, c, ch, 0) EXCEPT
                  !.err = r.err, !.ret = r.ret, !.warned = r.warned,
                  !.alloc = r.alloc]
    /\ UNCHANGED <<used_pins, cfg, channel_servos, servos, leds, led>>

Outcome(call, r) ==
    [call EXCEPT !.err = r.err, !.ret = r.ret, !.drv = r.drv,
                 !.warned = r.warned, !.alloc = r.alloc]

\* controller.new_servo(name, pin, update)
NewServo(n, p, c) ==
    \E r \in {new_servo(n, p, c)} :
    /\ update_channels' = r.uc
    /\ channel_servos' = r.cs
    /\ used_pins' = r.pins
    /\ servos' = r.registry
    /\ last' = Outcome(Call("new_servo", n, p, c, NoneVal, 0), r)
    /\ UNCHANGED <<cfg, leds, led>>

\* controller.new_continuous_servo(name, pin, pulse)
NewContinuousServo(n, p) ==
    \E r \in {new_continuous_servo(n, p)} :
    /\ update_channels' = r.uc
    /\ channel_servos' = r.cs
    /\ used_pins' = r.pins
    /\ servos' = r.registry
    /\ last' = Outcome(Call("new_continuous_servo", n, p, NoneVal, NoneVal, 0), r)
    /\ UNCHANGED <<cfg, leds, led>>

\* controller.new_led(name, pin)
NewLed(n, p) ==
    \E r \in {new_led(n, p)} :
    /\ update_channels' = r.uc
    /\ channel_servos' = r.cs
    /\ used_pins' = r.pins
    /\ leds' = r.registry
    /\ last' = Outcome(Call("new_led", n, p, NoneVal, NoneVal, 0), r)
    /\ UNCHANGED <<cfg, servos, led>>

\* LED(name, pin, channel) constructed by a client
LedNew(n, p, ch) ==
    \E r \in {LEDInit(n, p, ch)} :
    /\ led' = r.obj
    /\ last' = [Call("LED", n, p, NoneVal, ch, 0) EXCEPT !.err = r.err]
    /\ UNCHANGED <<used_pins, cfg, ctl>>

\* Servo(controller, name, pin, channel) constructed by a client
ServoNew(n, p, ch) ==
    \E r \in {ServoInit(n, p, ch)} :
    /\ led' = IF r.err = "ok" THEN r.obj ELSE led
    /\ last' = [Call("Servo", n, p, NoneVal, ch, 0) EXCEPT !.err = r.err]
    /\ UNCHANGED <<used_pins, cfg, ctl>>

\* ContinousServo(controller, name, pin, channel, pulse) constructed by a client
ContinousServoNew(n, p, ch) ==
    \E r \in {ContinousServoInit(n, p, ch)} :
    /\ led' = IF r.err = "ok" THEN r.obj ELSE led
    /\ last' = [Call("ContinousServo", n, p, NoneVal, ch, 0) EXCEPT !.err = r.err]
    /\ UNCHANGED <<used_pins, cfg, ctl>>

\* led.set(brightness)
LedSet(v) ==
    \E r \in {LED_set(led, v)} :
    /\ led.kind = "led"
    /\ led' = r.obj
    /\ last' = [Call("led.set", "", 0, NoneVal, NoneVal, v) EXCEPT !.err = r.err]
    /\ UNCHANGED <<used_pins, cfg, ctl>>

\* led.increment(change)
LedIncrement(d) ==
    \E r \in {LED_increment(led, d)} :
    /\ led.kind = "led"
    /\ led' = r.obj
    /\ last' = [Call("led.increment", "", 0, NoneVal, NoneVal, d) EXCEPT !.err = r.err]
    /\ UNCHANGED <<used_pins, cfg, ctl>>

\* servo.set(angle)
ServoSet(a) ==
    \E r \in {Servo_set(led, a)} :
    /\ led.kind = "servo"
    /\ led' = r.obj
    /\ last' = [Call("servo.set", "", 0, NoneVal, NoneVal, a) EXCEPT
                  !.err = r.err, !.drv = r.drv]
    /\ UNCHANGED <<used_pins, cfg, ctl>>

\* servo.increment(change)
ServoIncrement(d) ==
    \E r \in {Servo_increment(led, d)} :
    /\ led.kind = "servo"
    /\ led' = r.obj
    /\ last' = [Call("servo.increment", "", 0, NoneVal, NoneVal, d) EXCEPT
                  !.err = r.err, !.drv = r.drv]
    /\ UNCHANGED <<used_pins, cfg, ctl>>

\* servo.pulse read by a client
ServoPulse ==
    \E r \in {Servo_pulse(led, 1)} :
    /\ led.kind = "servo"
    /\ last' = [Call("servo.pulse", "", 0, NoneVal, NoneVal, led.value) EXCEPT
                  !.err = r.err, !.ret = r.val]
    /\ UNCHANGED <<used_pins, cfg, ctl, led>>

\* continuous_servo.set(speed)
ContinousServoSet(v) ==
    \E r \in {ContinousServo_set(led, v)} :
    /\ led.kind = "continuous"
    /\ led' = r.obj
    /\ last' = [Call("continuous.set", "", 0, NoneVal, NoneVal, v) EXCEPT
                  !.err = r.err, !.drv = r.drv]
    /\ UNCHANGED <<used_pins, cfg, ctl>>

\* continuous_servo.increment(change)
ContinousServoIncrement(d) ==
    \E r \in {ContinousServo_increment(led, d)} :
    /\ led.kind = "continuous"
    /\ led' = r.obj
    /\ last' = [Call("continuous.increment", "", 0, NoneVal, NoneVal, d) EXCEPT
                  !.err = r.err, !.drv = r.drv]
    /\ UNCHANGED <<used_pins, cfg, ctl>>

\* continuous_servo.pulse read by a client
ContinousServoPulse ==
    \E r \in {ContinousServo_pulse(led, 1)} :
    /\ led.kind = "continuous"
    /\ last' = [Call("continuous.pulse", "", 0, NoneVal, NoneVal, led.value) EXCEPT
                  !.err = r.err, !.ret = r.val]
    /\ UNCHANGED <<used_pins, cfg, ctl, led>>

\* the methods of Servo and ContinousServo applied to the attribute values of
\* an instance
InitPulse ==
    /\ \E b \in BehaviorOptions : used_pins = b.used_pins /\ echo = b.echo
    /\ reserved_channels \in ReservedOptions
    /\ update_channels = << >>
    /\ channel_servos = EmptyMap
    /\ servos = EmptyMap
    /\ leds = EmptyMap
    /\ led \in ServoAttrs \cup ContinousServoAttrs
    /\ last = NoCall

NextPulse ==
    \/ \E a \in Angles : ServoSet(a)
    \/ \E d \in AngleChanges : ServoIncrement(d)
    \/ ServoPulse
    \/ \E v \in Speeds : ContinousServoSet(v)
    \/ \E d \in SpeedChanges : ContinousServoIncrement(d)
    \/ ContinousServoPulse

NextPins ==
    \/ \E p \in Pins, io \in IoTypes, c \in Comments : ClaimPin(p, io, c)
    \/ \E p \in Pins : ReleasePin(p)

Next ==
    \/ \E n \in Names, p \in CtlPins, c \in Cycles : NewServo(n, p, c)
    \/ \E n \in Names, p \in CtlPins : NewContinuousServo(n, p)
    \/ \E n \in Names, p \in CtlPins : NewLed(n, p)
    \/ \E c \in CycleArgs : GetServoChannel(c)
    \/ \E c \in CycleArgs, ch \in ChannelArgs : NewServoChannel(c, ch)
    \/ \E c \in CycleArgs, ch \in ChannelArgs : NewDmaChannel(c, ch)

NextAct ==
    \/ \E n \in Names, p \in CtlPins, ch \in ExplicitChannels : LedNew(n, p, ch)
    \/ \E n \in Names, p \in CtlPins, ch \in ExplicitChannels : ServoNew(n, p, ch)
    \/ \E n \in Names, p \in CtlPins, ch \in ExplicitChannels : ContinousServoNew(n, p, ch)
    \/ \E v \in Brightnesses : LedSet(v)
    \/ \E d \in Changes : LedIncrement(d)

\* the output controller's operations
Spec == Init /\ [][Next]_vars
\* the pin registry's operations
SpecPins == Init /\ [][NextPins]_vars
\* the actuator objects a client constructs and drives directly
SpecAct == Init /\ [][NextAct]_vars
\* the pulse arithmetic and the methods of the two servo classes
SpecPulse == InitPulse /\ [][NextPulse]_vars

(* ======================= properties ======================= *)

AllIds == 0..(NumChannels - 1)
Reserved == Range(reserved_channels)
\* ids neither reserved nor bound to a cycle in uc
FreeIds(uc) == {x \in AllIds : x \notin Reserved /\ x \notin UCChannels(uc)}
Injective(uc) == \A i, j \in DOMAIN uc : i # j => uc[i].ch # uc[j].ch
NewOps == {"new_servo", "new_continuous_servo", "new_led"}
ServoComments == {"servo " \o n : n \in Names}

\* C1: the cycle->channel map is injective: no channel id is bound to two
\* update-cycle keys at once (None counts as a key).
C1_ChannelsInjective == Injective(update_channels)

\* C2: claim_pin(p) fails with the pin-already-claimed error exactly when p is
\* in the claim set before the call; a failed claim leaves the claim set as it
\* was and issues no driver call; a successful one records the claim and issues
\* exactly one direction-configuration call for p.
C2_ClaimFailsIffClaimed ==
    [][last'.op = "claim_pin" =>
        /\ last'.err \in {"ok", "PinAlreadyClaimed"}
        /\ (last'.err = "PinAlreadyClaimed") <=> (last'.pin \in DOMAIN used_pins)
        /\ last'.err = "PinAlreadyClaimed" =>
              /\ used_pins' = used_pins
              /\ last'.drv = << >>
        /\ last'.err = "ok" =>
              /\ DOMAIN used_pins' = DOMAIN used_pins \cup {last'.pin}
              /\ \A q \in DOMAIN used_pins : used_pins'[q] = used_pins[q]
              /\ Len(last'.drv) = 1
              /\ last'.drv[1].call = "setup" /\ last'.drv[1].pin = last'.pin
    ]_vars

\* C2 witness: a second claim of a claimed pin has been rejected
C2_Witness ==
    /\ last.op = "claim_pin" /\ last.err = "PinAlreadyClaimed"
    /\ last.pin \in DOMAIN used_pins

\* C3: once every non-reserved id is bound to a distinct update cycle, a
\* request for a channel for a further, unbound update cycle fails with the
\* no-channel-available error and changes neither map.
C3_ExhaustedFails ==
    [][(/\ last'.op = "get_servo_channel"
        /\ last'.cycle \in Cycles \ UCKeys(update_channels)
        /\ FreeIds(update_channels) = {}
        /\ Injective(update_channels))
       => (/\ last'.err = "NoChannelAvailable"
           /\ UNCHANGED <<update_channels, channel_servos>>)
    ]_vars

\* C4: get_servo_channel(c) for a bound cycle c returns the channel bound to c
\* and changes neither update_channels nor channel_servos.
C4_BoundCycleReused ==
    [][(/\ last'.op = "get_servo_channel"
        /\ last'.cycle \in UCKeys(update_channels))
       => (/\ last'.err = "ok"
           /\ last'.ret = UCGet(update_channels, last'.cycle)
           /\ UNCHANGED <<update_channels, channel_servos>>)
    ]_vars

\* C5: every fresh allocation binds the lowest id that is neither reserved nor
\* bound to any update cycle at the time of the call.
C5_LowestUnbound ==
    [][last'.alloc # NoneVal =>
        /\ FreeIds(update_channels) # {}
        /\ last'.alloc = Lowest(FreeIds(update_channels))
    ]_vars

\* C6 (as stated): no id bound in update_channels or present in channel_servos
\* is reserved.
C6_NoReservedBound ==
    (UCChannels(update_channels) \cup DOMAIN channel_servos) \cap Reserved = {}

\* C6 (amended): an id bound by a fresh allocation (no explicit channel
\* argument) is never reserved, the reserved list is never modified, and an
\* explicit channel argument is bound as given, reserved or not.
C6_FreshNeverReserved ==
    [][/\ reserved_channels' = reserved_channels
       /\ last'.alloc # NoneVal => last'.alloc \notin Reserved
       /\ (/\ last'.op \in {"new_servo_channel", "new_dma_channel"}
           /\ last'.ch # NoneVal)
          => (/\ last'.err = "ok"
              /\ UCGet(update_channels', last'.cycle) = last'.ch)
    ]_vars

\* C6 witness: a fresh allocation has just bound an id while a reserved id,
\* given explicitly, is bound as well
C6_Witness ==
    /\ last.alloc # NoneVal
    /\ last.alloc \in UCChannels(update_channels)
    /\ UCChannels(update_channels) \cap Reserved # {}

\* C7: a new_servo / new_continuous_servo / new_led call that fails leaves the
\* claim set, both channel maps and the registries as they were.
C7_AllOrNothing ==
    [][(last'.op \in NewOps /\ last'.err # "ok")
       => UNCHANGED <<used_pins, update_channels, channel_servos, servos, leds>>
    ]_vars

\* C8: new_servo(name, pin, cycle) with pin unclaimed and cycle bound or a free
\* non-reserved id left succeeds; afterwards pin is claimed with the servo's
\* comment and cycle is bound to the servo's channel.
C8_NewServoSucceeds ==
    [][(/\ last'.op = "new_servo"
        /\ last'.pin \notin DOMAIN used_pins
        /\ \/ last'.cycle \in UCKeys(update_channels)
           \/ FreeIds(update_channels) # {})
       => (/\ last'.err = "ok"
           /\ last'.pin \in DOMAIN used_pins'
           /\ used_pins'[last'.pin] \in ServoComments
           /\ last'.cycle \in UCKeys(update_channels')
           /\ UCGet(update_channels', last'.cycle) = last'.ret)
    ]_vars

\* C9: the registries are keyed by the supplied name: after a new_led call
\* made with an unclaimed pin and a channel to be had, the led registry has an
\* entry under a supplied name, and entries are never removed (likewise servos).
C9_RegistryKeyedByName ==
    [][/\ DOMAIN servos \subseteq DOMAIN servos'
       /\ DOMAIN leds \subseteq DOMAIN leds'
       /\ DOMAIN servos' \cup DOMAIN leds' \subseteq Names
       /\ (/\ last'.op = "new_led"
           /\ last'.pin \notin DOMAIN used_pins
           /\ \/ update_channels # << >>
              \/ get_dma_channel(channel_servos) # NoneVal)
          => DOMAIN leds' \cap Names # {}
    ]_vars

\* C10: for an LED, set(v) stores v iff 0 < v < 100 and is rejected otherwise;
\* increment(d) behaves as set(brightness + d); a rejected call leaves the
\* brightness as it was.
C10_SetIffInside ==
    [][/\ last'.op = "led.set" =>
            IF 0 < last'.val /\ last'.val < MaxBrightness
            THEN last'.err = "ok" /\ led'.value = last'.val
            ELSE last'.err = "ValueError" /\ led' = led
       /\ last'.op = "led.increment" =>
            IF 0 < led.value + last'.val /\ led.value + last'.val < MaxBrightness
            THEN last'.err = "ok" /\ led'.value = led.value + last'.val
            ELSE last'.err # "ok" /\ led' = led
    ]_vars

(* ---------------- actuator pulses ------------------------------------------ *)

\* pulse increment of the claims' examples (0.1), counted in thousandths
PulseIncr == 100

\* the value section 4.3 of the specification gives for the pulse of a
\* non-reversed servo: floor((min + angle/range * (max - min)) / incr) * incr
FormulaPulse(angle, range, pmin, pmax, incr) ==
    ((pmin * range + angle * (pmax - pmin)) \div (range * incr)) * incr

ValidAngle(obj) == 0 < obj.value /\ obj.value < obj.range

FormulaSpeedPulse(v, reverse, pmin, pmax) ==
    (pmin + pmax) \div 2
      + ((IF reverse THEN 0 - v ELSE v) * (pmax - pmin)) \div (2 * SpeedUnit)

C13_ReleaseNeverFails ==
    [][last'.op = "release_pin"
        => /\ last'.err = "ok"
           /\ IF last'.pin \in DOMAIN used_pins
              THEN /\ DOMAIN used_pins' = DOMAIN used_pins \ {last'.pin}
                   /\ \A q \in DOMAIN used_pins' : used_pins'[q] = used_pins[q]
                   /\ ~last'.warned
              ELSE /\ used_pins' = used_pins
                   /\ last'.warned => Truthy(echo)
           /\ release_pin(last'.pin, used_pins', echo).pins = used_pins'
    ]_vars

\* a release of a claimed pin has left another claim standing
C13_Witness ==
    /\ last.op = "release_pin"
    /\ ~last.warned
    /\ last.pin \notin DOMAIN used_pins
    /\ used_pins # << >>
    /\ echo # ""

(* ---------------- actuators, second part ----------------------------------- *)

SetOps == {"led.set", "led.increment", "servo.set", "servo.increment",
           "continuous.set", "continuous.increment"}

\* C14: every set or increment on an actuator that returns normally has,
\* before returning, recomputed the pulse and pushed it to the hardware
\* driver: the call has issued at least one driver call.
C14_SetPushesToDriver ==
    [][(last'.op \in SetOps /\ last'.err = "ok") => last'.drv # << >>]_vars

(* ---------------- channels, second part ------------------------------------ *)

\* every bound cycle's channel has its servo driver object
MapsAgree(uc, cs) == \A i \in DOMAIN uc : uc[i].ch \in DOMAIN cs

\* C15: get_servo_channel raises ChannelBindingInconsistency only when
\* update_channels and channel_servos disagree, i.e. some bound cycle's channel
\* has no entry in channel_servos; in a state where they agree it is raised for
\* no update cycle, not even one equal to an allocated channel id.
C15_InconsistencyOnlyWhenMapsDisagree ==
    [][(last'.op = "get_servo_channel"
          /\ last'.err = "ChannelBindingInconsistency")
        => ~MapsAgree(update_channels, channel_servos)
    ]_vars

InsideRange(obj) ==
    CASE obj.kind = "led" -> 0 < obj.value /\ obj.value < MaxBrightness
      [] obj.kind = "servo" -> 0 < obj.value /\ obj.value < obj.range
      [] obj.kind = "continuous" -> 0 - SpeedUnit < obj.value /\ obj.value < SpeedUnit
      [] OTHER -> TRUE

\* C16 as stated: in every state from construction onward the stored value of
\* an actuator lies strictly inside its range (LED: 0 < brightness < 100).
C16_ValueStrictlyInside == InsideRange(led)

\* C16: a newly constructed LED stores brightness 0; the stored brightness
\* changes only by a set that returns normally, and that set stores a value
\* strictly inside (0, 100): the brightness is 0 or strictly inside.
C16_ZeroUntilSetThenInside ==
    [][led'.kind = "led"
        => /\ (last'.op = "LED" /\ last'.err = "ok") => led'.value = 0
           /\ (last'.op # "LED" /\ led'.value # led.value)
                => /\ last'.op = "led.set"
                   /\ last'.err = "ok"
                   /\ InsideRange(led')
           /\ led'.value = 0 \/ InsideRange(led')
    ]_vars

\* an LED whose brightness a set has moved off the initial 0
C16_Witness ==
    /\ led.kind = "led"
    /\ last.op = "led.set"
    /\ last.err = "ok"
    /\ led.value = MaxBrightness - 1

\* C17: new_led takes the channel of the first binding (insertion order) when
\* at least one binding exists and creates no new binding; when none exists and
\* a channel is free it allocates a fresh one, bound under the absent cycle.
\* In both cases, once the channel is chosen, the LED's pin is claimed.
C17_NewLedChannelAndPin ==
    [][last'.op = "new_led"
        => /\ IF update_channels # << >>
              THEN update_channels' = update_channels /\ last'.alloc = NoneVal
              ELSE get_dma_channel(channel_servos) # NoneVal
                     => /\ last'.alloc = get_dma_channel(channel_servos)
                        /\ update_channels'
                             = << [ch |-> last'.alloc, key |-> NoneVal] >>
           /\ (update_channels # << >> \/ get_dma_channel(channel_servos) # NoneVal)
                => last'.pin \in DOMAIN used_pins'
    ]_vars

RebindOps == {"new_servo_channel", "new_dma_channel"}

\* C18: new_servo_channel / new_dma_channel called with an update cycle that
\* is already bound and with an explicit channel never fails; afterwards the
\* cycle is bound to exactly that channel, the old binding is gone (one entry
\* per cycle, as many entries as before), every other cycle's binding is
\* unchanged, and a warning is emitted only if config.echo is set.
C18_RebindExplicit ==
    [][(/\ last'.op \in RebindOps
        /\ last'.ch # NoneVal
        /\ last'.cycle \in UCKeys(update_channels))
        => /\ last'.err = "ok"
           /\ Len(update_channels') = Len(update_channels)
           /\ \A i \in DOMAIN update_channels' :
                 /\ update_channels'[i].key = update_channels[i].key
                 /\ update_channels'[i].ch =
                      IF update_channels[i].key = last'.cycle
                      THEN last'.ch ELSE update_channels[i].ch
           /\ last'.warned => Truthy(echo)
    ]_vars

\* a bound cycle has been rebound to an explicit channel, with a warning, and
\* another cycle is bound too
C18_Witness ==
    /\ last.op \in RebindOps
    /\ last.ch # NoneVal
    /\ last.warned
    /\ Len(update_channels) >= 2
    /\ UCGet(update_channels, last.cycle) = last.ch

(* ---------------- actuator pulses, second part ----------------------------- *)

====
